---- MODULE Spec2Model ----
(***************************************************************************)
(* A model of custom_components/cz_energy_spot_prices/spot_rate.py: the    *)
(* SpotRate class that downloads day-ahead electricity and gas prices from *)
(* the OTE SOAP endpoint, parses the response and keys the prices by UTC   *)
(* instant.                                                                *)
(*                                                                         *)
(* Texts are sequences of one-character strings, so that parsing           *)
(* (date.fromisoformat, int, Decimal) and formatting (date.isoformat) are  *)
(* computed and not assumed.  Instants are minutes since                   *)
(* 2023-01-01T00:00Z; dates are records [year, month, day].                *)
(***************************************************************************)
EXTENDS Integers, Sequences, FiniteSets, TLC

\* ------------------------------------------------------------- bounds

\* The longest item list the small-response generator of the feed produces.
MaxItems == 2

\* ------------------------------------------------------------- texts

DigitChars == <<"0", "1", "2", "3", "4", "5", "6", "7", "8", "9">>

IsDigit(c) == \E i \in 1..10 : DigitChars[i] = c

DigitVal(c) == (CHOOSE i \in 1..10 : DigitChars[i] = c) - 1

AllDigits(s) == \A i \in 1..Len(s) : IsDigit(s[i])

RECURSIVE DigitsVal(_)
\* The number a run of decimal digits denotes ("03" is 3, "" is 0).
DigitsVal(s) ==
    IF s = <<>> THEN 0
    ELSE 10 * DigitsVal(SubSeq(s, 1, Len(s) - 1)) + DigitVal(s[Len(s)])

RECURSIVE NatDigits(_)
\* The decimal digits of a natural number, without leading zeros.
NatDigits(n) ==
    IF n < 10 THEN <<DigitChars[n + 1]>>
    ELSE NatDigits(n \div 10) \o <<DigitChars[(n % 10) + 1]>>

RECURSIVE ZeroPad(_, _)
ZeroPad(s, w) == IF Len(s) >= w THEN s ELSE ZeroPad(<<"0">> \o s, w)

RECURSIVE Pow10(_)
Pow10(n) == IF n <= 0 THEN 1 ELSE 10 * Pow10(n - 1)

\* ------------------------------------------------------------- dates

\* The one year the time-zone table below covers.
ModelYear == 2023

DaysInMonth == <<31, 28, 31, 30, 31, 30, 31, 31, 30, 31, 30, 31>>

RECURSIVE DaysBeforeMonth(_)
DaysBeforeMonth(m) ==
    IF m <= 1 THEN 0 ELSE DaysBeforeMonth(m - 1) + DaysInMonth[m - 1]

\* Days since January 1st of ModelYear.
ToOrdinal(d) == DaysBeforeMonth(d.month) + d.day - 1

FromOrdinal(n) ==
    LET m == CHOOSE k \in 1..12 :
                 DaysBeforeMonth(k) <= n /\ n < DaysBeforeMonth(k) + DaysInMonth[k]
    IN  [year |-> ModelYear, month |-> m, day |-> n - DaysBeforeMonth(m) + 1]

\* date + timedelta(days=k)
DatePlusDays(d, k) == FromOrdinal(ToOrdinal(d) + k)

\* date.isoformat(): YYYY-MM-DD
Isoformat(d) ==
    ZeroPad(NatDigits(d.year), 4) \o <<"-">> \o ZeroPad(NatDigits(d.month), 2)
        \o <<"-">> \o ZeroPad(NatDigits(d.day), 2)

\* Whether date.fromisoformat accepts the text (it raises ValueError if not).
IsIsoDate(s) ==
    /\ Len(s) = 10
    /\ s[5] = "-"
    /\ s[8] = "-"
    /\ AllDigits(SubSeq(s, 1, 4))
    /\ AllDigits(SubSeq(s, 6, 7))
    /\ AllDigits(SubSeq(s, 9, 10))
    /\ DigitsVal(SubSeq(s, 1, 4)) >= 1
    /\ DigitsVal(SubSeq(s, 6, 7)) \in 1..12
    /\ DigitsVal(SubSeq(s, 9, 10)) \in 1..DaysInMonth[DigitsVal(SubSeq(s, 6, 7))]

\* date.fromisoformat(text), for a text IsIsoDate accepts.
Fromisoformat(s) ==
    [year  |-> DigitsVal(SubSeq(s, 1, 4)),
     month |-> DigitsVal(SubSeq(s, 6, 7)),
     day   |-> DigitsVal(SubSeq(s, 9, 10))]

\* ------------------------------------------------------------- time zone

MinutesPerHour == 60

MinutesPerDay == 1440

\* Europe/Prague in ModelYear: CEST from March 26th 02:00 to October 29th 03:00.
\* The ordinals of the two transition days.
SpringForwardDay == 84

FallBackDay == 301

\* The UTC offset, in minutes, that holds at local midnight of the day:
\* the transitions happen after midnight, so a transition day still starts
\* with the offset of the day before.
UtcOffsetAtMidnight(n) ==
    IF n > SpringForwardDay /\ n <= FallBackDay THEN 120 ELSE 60

\* datetime.combine(d, time(0), tzinfo=self.timezone).astimezone(self.utc)
StartOfDayUtc(d) ==
    ToOrdinal(d) * MinutesPerDay - UtcOffsetAtMidnight(ToOrdinal(d))

\* The number of hours of the local day.
DayLengthHours(d) ==
    (StartOfDayUtc(DatePlusDays(d, 1)) - StartOfDayUtc(d)) \div MinutesPerHour

\* start.astimezone(self.timezone).date()
LocalDate(t) ==
    FromOrdinal(CHOOSE n \in 1..363 :
        /\ n * MinutesPerDay - UtcOffsetAtMidnight(n) <= t
        /\ t < (n + 1) * MinutesPerDay - UtcOffsetAtMidnight(n + 1))

\* ------------------------------------------------------------- Decimal

\* A Decimal is a coefficient and an exponent: coeff * 10^exp.
\* Whether Decimal(text) accepts the text: [-]digits[.digits]
IsDecimalText(s) ==
    /\ s # <<>>
    /\ LET body == IF s[1] = "-" THEN Tail(s) ELSE s
           dots == {i \in 1..Len(body) : body[i] = "."}
       IN  /\ Cardinality(dots) <= 1
           /\ \A i \in 1..Len(body) : IsDigit(body[i]) \/ body[i] = "."
           /\ \E i \in 1..Len(body) : IsDigit(body[i])

\* Decimal(text), for a text IsDecimalText accepts.
ParseDecimal(s) ==
    LET neg  == s[1] = "-"
        body == IF neg THEN Tail(s) ELSE s
        dots == {i \in 1..Len(body) : body[i] = "."}
        dot  == IF dots = {} THEN Len(body) + 1 ELSE CHOOSE i \in dots : TRUE
        int  == SubSeq(body, 1, dot - 1)
        frac == SubSeq(body, dot + 1, Len(body))
        mag  == DigitsVal(int \o frac)
    IN  [coeff |-> IF neg THEN 0 - mag ELSE mag, exp |-> 0 - Len(frac)]

RECURSIVE StripZeros(_, _)
\* Decimal division's reduction of an exact quotient towards the ideal exponent.
StripZeros(x, ideal) ==
    IF x.exp < ideal /\ x.coeff % 10 = 0
    THEN StripZeros([coeff |-> x.coeff \div 10, exp |-> x.exp + 1], ideal)
    ELSE x

\* current_price /= Decimal(1000)
DivideBy1000(x) == StripZeros([coeff |-> x.coeff, exp |-> x.exp - 3], x.exp)

\* value * eur_rate
DecimalMul(x, y) == [coeff |-> x.coeff * y.coeff, exp |-> x.exp + y.exp]

\* Numeric equality of two Decimals (Decimal.__eq__).
DecimalEq(x, y) ==
    LET m == IF x.exp < y.exp THEN x.exp ELSE y.exp
    IN  x.coeff * Pow10(x.exp - m) = y.coeff * Pow10(y.exp - m)

\* ------------------------------------------------------------- queries

\* get_electricity_query: the GetDamPriceE envelope with its three fields.
get_electricity_query(start, end, in_eur) ==
    [op     |-> "GetDamPriceE",
     start  |-> Isoformat(start),
     end    |-> Isoformat(end),
     in_eur |-> <<IF in_eur THEN "true" ELSE "false">>]

\* get_gas_query: the GetImPriceG envelope, which has no InEur field.
get_gas_query(start, end) ==
    [op     |-> "GetImPriceG",
     start  |-> Isoformat(start),
     end    |-> Isoformat(end),
     in_eur |-> <<>>]

\* ------------------------------------------------------------- errors

NoError == [cls |-> "", msg |-> "", raw |-> <<>>]

Error(cls, msg) == [cls |-> cls, msg |-> msg, raw |-> <<>>]

\* class InvalidFormat(OTEFault); UpdateFailed and the others are not OTEFaults.
IsOTEFault(e) == e.cls \in {"OTEFault", "InvalidFormat"}

\* ------------------------------------------------------------- responses

\* A child element of an Item: absent, or present with a text (<<>> when the
\* element is empty, which ElementTree reports as text None).
Absent == [present |-> FALSE, text |-> <<>>]

Empty == [present |-> TRUE, text |-> <<>>]

Child(text) == [present |-> TRUE, text |-> text]

\* "el is None or el.text is None", negated
HasText(el) == el.present /\ el.text # <<>>

NoFaultstring == [present |-> FALSE, hasText |-> FALSE, text |-> ""]

\* The first Fault element below the root: whether there is one, how many
\* children other than faultstring it has, and its faultstring child.
NoFault == [present |-> FALSE, others |-> 0, faultstring |-> NoFaultstring]

Fault(others, faultstring) ==
    [present |-> TRUE, others |-> others, faultstring |-> faultstring]

\* A response text: whether it is well-formed XML, whether it contains the
\* words "Application is not available", and the elements the code looks at.
XmlText(fault, items) ==
    [xml |-> TRUE, notAvailable |-> FALSE, fault |-> fault, items |-> items]

PlainText(notAvailable) ==
    [xml |-> FALSE, notAvailable |-> notAvailable, fault |-> NoFault, items |-> <<>>]

\* ------------------------------------------------------------- _fromstring

\* A faulty variant, for comparison: the two classifications exchanged.
FromstringSwapped(text) ==
    IF text.xml
    THEN [ok |-> TRUE, root |-> text, error |-> NoError]
    ELSE [ok |-> FALSE, root |-> text,
          error |-> IF text.notAvailable
                    THEN Error("UpdateFailed", "Failed to parse query response.")
                    ELSE Error("UpdateFailed", "OTE Portal is currently not available!")]

\* _fromstring: ET.fromstring(text), and UpdateFailed on any exception of it.
Fromstring(text) ==
    IF text.xml
    THEN [ok |-> TRUE, root |-> text, error |-> NoError]
    ELSE [ok |-> FALSE, root |-> text,
          error |-> IF text.notAvailable
                    THEN Error("UpdateFailed", "OTE Portal is currently not available!")
                    ELSE Error("UpdateFailed", "Failed to parse query response.")]

\* ------------------------------------------------------------- _get_rates

\* "if fault:" is the truth value of an Element (None when find found none),
\* which is whether the element has children.
FaultDetected(fault) ==
    fault.present /\ fault.others + (IF fault.faultstring.present THEN 1 ELSE 0) # 0

\* The OTEFault raised for a detected fault.
FaultError(text) ==
    IF text.fault.faultstring.present
    THEN Error("OTEFault", IF text.fault.faultstring.hasText
                           THEN text.fault.faultstring.text ELSE "None")
    ELSE [cls |-> "OTEFault", msg |-> "", raw |-> <<text>>]

\* int(hour_el.text) accepts the text
IsIntText(s) == s # <<>> /\ AllDigits(s)

\* A faulty variant, for comparison: hours added without the "minus 1".
CurrentHourOneBased(item, has_hours) ==
    IF has_hours /\ HasText(item.hour) THEN DigitsVal(item.hour.text) ELSE 0

\* current_hour of an item
CurrentHour(item, has_hours) ==
    IF has_hours /\ HasText(item.hour) THEN DigitsVal(item.hour.text) - 1 ELSE 0

\* A faulty variant, for comparison: the hour added to local midnight with the offset the zone has
\* at that local hour (local arithmetic: the hour is read as a wall-clock hour).
TimestampLocalArithmetic(current_date, current_hour) ==
    LET n == ToOrdinal(current_date)
        off == IF n = SpringForwardDay /\ current_hour >= 3 THEN 120
               ELSE IF n = FallBackDay /\ current_hour >= 3 THEN 60
               ELSE UtcOffsetAtMidnight(n)
    IN  n * MinutesPerDay + current_hour * MinutesPerHour - off

\* dt = start_of_day.astimezone(self.utc) + timedelta(hours=current_hour)
Timestamp(current_date, current_hour) ==
    StartOfDayUtc(current_date) + current_hour * MinutesPerHour

\* The price in the requested unit; the caller has checked the unit.
ScalePrice(price, unit) == IF unit = "kWh" THEN DivideBy1000(price) ELSE price

EmptyRates == [k \in {} |-> NoError]

\* result[dt] = current_price
Put(result, dt, price) ==
    [k \in DOMAIN result \cup {dt} |-> IF k = dt THEN price ELSE result[k]]

Raised(error, log) ==
    [ok |-> FALSE, result |-> EmptyRates, log |-> log, error |-> error]

LogRecord(level, current_date, current_hour) ==
    [level |-> level, date |-> current_date, hour |-> current_hour]

\* The body of the loop of _get_rates for one item: it raises, or it skips the
\* item ("continue"), or it has an entry to store; and what it logs.
ItemStep(item, unit, has_hours) ==
    IF ~HasText(item.date)
    THEN [kind |-> "raise", key |-> 0, price |-> NoError, log |-> <<>>,
          error |-> Error("InvalidFormat", "Item has no \"Date\" child or is empty")]
    ELSE IF ~IsIsoDate(item.date.text)
    THEN [kind |-> "raise", key |-> 0, price |-> NoError, log |-> <<>>,
          error |-> Error("ValueError", "Invalid isoformat string")]
    ELSE IF has_hours /\ HasText(item.hour) /\ ~IsIntText(item.hour.text)
    THEN [kind |-> "raise", key |-> 0, price |-> NoError, log |-> <<>>,
          error |-> Error("ValueError", "invalid literal for int()")]
    ELSE
    LET current_date == Fromisoformat(item.date.text)
        current_hour == CurrentHour(item, has_hours)
        warned == IF has_hours /\ ~HasText(item.hour)
                  THEN <<LogRecord("warning", current_date, 0)>>
                  ELSE <<>>
    IN
    IF ~HasText(item.price)
    THEN [kind |-> "continue", key |-> 0, price |-> NoError, error |-> NoError,
          log |-> Append(warned, LogRecord("info", current_date, current_hour))]
    ELSE IF ~IsDecimalText(item.price.text)
    THEN [kind |-> "raise", key |-> 0, price |-> NoError, log |-> warned,
          error |-> Error("InvalidOperation", "ConversionSyntax")]
    ELSE IF unit \notin {"kWh", "MWh"}
    THEN [kind |-> "raise", key |-> 0, price |-> NoError, log |-> warned,
          error |-> Error("ValueError", "Invalid unit")]
    ELSE [kind |-> "store", key |-> Timestamp(current_date, current_hour),
          price |-> ScalePrice(ParseDecimal(item.price.text), unit),
          log |-> warned, error |-> NoError]

\* A faulty variant, for comparison: an item without a price ends the loop with InvalidFormat.
LoopBodyRaisingOnSkip(item, unit, has_hours, st) ==
    LET step == ItemStep(item, unit, has_hours) IN
    IF step.kind = "raise" THEN Raised(step.error, st.log \o step.log)
    ELSE IF step.kind = "continue"
    THEN Raised(Error("InvalidFormat", "Item has no \"Price\" child or is empty"),
                st.log \o step.log)
    ELSE [ok |-> TRUE, error |-> NoError, log |-> st.log \o step.log,
          result |-> Put(st.result, step.key, step.price)]

\* One pass of the loop: the state of the loop (the result and the log so
\* far, or the exception raised) after the item.
LoopBody(item, unit, has_hours, st) ==
    LET step == ItemStep(item, unit, has_hours) IN
    IF step.kind = "raise" THEN Raised(step.error, st.log \o step.log)
    ELSE [ok |-> TRUE, error |-> NoError, log |-> st.log \o step.log,
          result |-> IF step.kind = "store"
                     THEN Put(st.result, step.key, step.price)
                     ELSE st.result]

RECURSIVE ExtractItems(_, _, _, _, _, _)
\* The loop of _get_rates over items lo..hi of root.findall(Item), in order,
\* from the loop state st on; an exception ends it.  (The range is walked
\* first half, then second half, which keeps the evaluation shallow.)
ExtractItems(items, lo, hi, unit, has_hours, st) ==
    IF ~st.ok \/ lo > hi THEN st
    ELSE IF lo = hi THEN LoopBody(items[lo], unit, has_hours, st)
    ELSE ExtractItems(items, (lo + hi) \div 2 + 1, hi, unit, has_hours,
                      ExtractItems(items, lo, (lo + hi) \div 2, unit, has_hours, st))

\* _get_rates from the downloaded text on: parse, fault check, item loop.
GetRatesFromText(text, unit, has_hours, log) ==
    LET parsed == Fromstring(text) IN
    IF ~parsed.ok THEN Raised(parsed.error, log)
    ELSE IF FaultDetected(parsed.root.fault) THEN Raised(FaultError(text), log)
    ELSE ExtractItems(parsed.root.items, 1, Len(parsed.root.items), unit, has_hours,
                      [ok |-> TRUE, result |-> EmptyRates, log |-> log,
                       error |-> NoError])

\* ------------------------------------------------------------- the feed

\* has_hours, as the two callers of _get_rates pass it for their query.
HasHours(query) == query.op = "GetDamPriceE"

\* Day k (0, 1, 2) of the date window the query asks for.
WindowDay(query, k) == DatePlusDays(Fromisoformat(query.start), k)

\* The hour slots a feed that always numbers 24 (26 on the 25-hour day) slots
\* would send for the day.
NominalSlots(d) == IF DayLengthHours(d) = 25 THEN 26 ELSE 24

SeqsUpTo(S, n) == UNION {[1..k -> S] : k \in 0..n}

PricedItem(d, h, price) ==
    [date |-> Child(Isoformat(d)), hour |-> h, price |-> Child(price)]

HourChild(query, h) == IF HasHours(query) THEN Child(NatDigits(h)) ELSE Absent

\* Items with every combination of a missing field, on the two last days of
\* the window; hour slot 1 and the last nominal slot of the day.
SmallItems(query) ==
    LET days == {WindowDay(query, 1), WindowDay(query, 2)}
    IN  {[date |-> d, hour |-> h, price |-> p] :
            d \in {Empty} \cup {Child(Isoformat(x)) : x \in days},
            h \in {Absent} \cup
                  (IF HasHours(query)
                   THEN {Child(NatDigits(1)),
                         Child(NatDigits(NominalSlots(WindowDay(query, 1))))}
                   ELSE {}),
            p \in {Absent, Child(<<"1", "0">>)}}

\* One-item responses with the other shapes of a field.
SpecialItems(query) ==
    LET d == WindowDay(query, 1)
        h == HourChild(query, 1)
    IN  {PricedItem(d, h, p) :
            p \in {<<"5", "1", "8", "4", ".", "1", "4">>, <<"-", "5">>,
                   <<"1", "0", "0", "0">>, <<"5", ".", "0">>, <<"0">>, <<"x">>}}
        \cup {[date |-> Absent, hour |-> h, price |-> Child(<<"1", "0">>)],
              [date |-> Child(<<"2", "0", "2", "3", "-", "0", "2", "-", "3", "0">>),
               hour |-> h, price |-> Child(<<"1", "0">>)],
              [date |-> Child(Isoformat(d)), hour |-> h, price |-> Empty]}
        \cup (IF HasHours(query)
              THEN {PricedItem(d, Empty, <<"1", "0">>),
                    PricedItem(d, Child(<<"x">>), <<"1", "0">>)}
              ELSE {})

\* The items of day k of the window, slots 1..n, each with its own price.
DayItems(query, k, n, priced) ==
    [h \in 1..n |->
        [date  |-> Child(Isoformat(WindowDay(query, k))),
         hour  |-> HourChild(query, h),
         price |-> IF priced THEN Child(NatDigits(100 * (k + 1) + h)) ELSE Absent]]

\* The whole window: every slot of the three days (the real slots of each day,
\* or the nominal ones), the last day published or not yet.
WindowItems(query, nominal, published) ==
    LET n(k) == IF ~HasHours(query) THEN 1
                ELSE IF nominal THEN NominalSlots(WindowDay(query, k))
                ELSE DayLengthHours(WindowDay(query, k))
    IN  DayItems(query, 0, n(0), TRUE) \o DayItems(query, 1, n(1), TRUE)
            \o DayItems(query, 2, n(2), published)

FaultShapes ==
    {Fault(0, NoFaultstring),
     Fault(1, NoFaultstring),
     Fault(0, [present |-> TRUE, hasText |-> TRUE, text |-> "Service busy"]),
     Fault(1, [present |-> TRUE, hasText |-> TRUE, text |-> "Service busy"]),
     Fault(1, [present |-> TRUE, hasText |-> FALSE, text |-> ""])}

\* A short list of answers: no item, one item, a fault, an outage page.
BriefTexts(query) ==
    {XmlText(NoFault, <<>>),
     XmlText(NoFault, <<PricedItem(WindowDay(query, 1), HourChild(query, 1),
                                   <<"1", "0">>)>>),
     XmlText(NoFault, <<[date |-> Empty, hour |-> Absent, price |-> Absent]>>),
     XmlText(Fault(1, [present |-> TRUE, hasText |-> TRUE, text |-> "Service busy"]),
             <<>>),
     PlainText(TRUE)}

\* The texts the endpoint may answer the query with.
ResponseTexts(query) ==
    {XmlText(NoFault, items) : items \in SeqsUpTo(SmallItems(query), MaxItems)}
    \cup {XmlText(NoFault, <<item>>) : item \in SpecialItems(query)}
    \cup {XmlText(NoFault, WindowItems(query, nominal, published)) :
             nominal \in BOOLEAN, published \in BOOLEAN}
    \cup {XmlText(f, items) :
             f \in FaultShapes,
             items \in {<<>>, <<PricedItem(WindowDay(query, 1), HourChild(query, 1),
                                           <<"1", "0">>)>>}}
    \cup {PlainText(TRUE), PlainText(FALSE),
          [XmlText(NoFault, <<>>) EXCEPT !.notAvailable = TRUE]}

\* What can go wrong with the POST: aiohttp's connection and protocol errors,
\* and the TimeoutError of the session's total timeout.
NetworkFailures ==
    {"ClientConnectorError", "ServerDisconnectedError", "ClientPayloadError",
     "TimeoutError"}

\* aiohttp.ClientError and its subclasses; asyncio's TimeoutError is none.
IsClientError(exc) ==
    exc \in {"ClientConnectorError", "ServerDisconnectedError", "ClientPayloadError"}

\* The outcomes of one POST of the query, of all the answers or of the
\* short list.
PostOutcomes(query, brief) ==
    {[exc |-> "", text |-> t] :
        t \in IF brief THEN BriefTexts(query) ELSE ResponseTexts(query)}
    \cup {[exc |-> e, text |-> PlainText(FALSE)] : e \in NetworkFailures}

\* ------------------------------------------------------------- _download

\* _download, given the outcome of its POST.
Download(outcome) ==
    IF outcome.exc = ""
    THEN [ok |-> TRUE, text |-> outcome.text, error |-> NoError]
    ELSE [ok |-> FALSE, text |-> outcome.text,
          error |-> IF IsClientError(outcome.exc)
                    THEN Error("OTEFault", "Unable to download rates")
                    ELSE Error(outcome.exc, "")]

\* _get_rates from the outcome of the POST on.
GetRates(outcome, unit, has_hours, log) ==
    LET dl == Download(outcome) IN
    IF dl.ok THEN GetRatesFromText(dl.text, unit, has_hours, log)
    ELSE Raised(dl.error, log)

\* ------------------------------------------------------------- exchange rates

\* What CnbRate.get_current_rates may give: a table from currency code to
\* rate, or a failure.
CnbOutcomes ==
    {[exc |-> "", table |-> [EUR |-> [coeff |-> 2450, exp |-> -2]]],
     [exc |-> "", table |-> [EUR |-> [coeff |-> 251, exp |-> -1],
                              USD |-> [coeff |-> 22, exp |-> 0]]],
     [exc |-> "", table |-> [USD |-> [coeff |-> 22, exp |-> 0]]],
     [exc |-> "CnbError", table |-> [USD |-> [coeff |-> 0, exp |-> 0]]]}

\* A faulty variant, for comparison: the rate added instead of multiplied in.
ConvertAdding(rates, eur_rate) ==
    [k \in DOMAIN rates |->
        [coeff |-> rates[k].coeff + eur_rate.coeff, exp |-> rates[k].exp]]

\* converted[dt] = value * eur_rate, for every entry
Convert(rates, eur_rate) ==
    [k \in DOMAIN rates |-> DecimalMul(rates[k], eur_rate)]

\* ------------------------------------------------------------- asyncio.gather

\* A faulty variant, for comparison: a failed child leaves the gathering future pending.
GatherChildDoneSwallow(g, failed, error, allDone) ==
    IF g.st # "pending" THEN g
    ELSE IF failed THEN g
    ELSE IF allDone THEN [st |-> "result", error |-> NoError]
    ELSE g

\* The callback gather runs when a child is done: the first exception of a
\* child ends the gathering future with it, the last result ends it with
\* the results; a future that is done stays as it is.
GatherChildDone(g, failed, error, allDone) ==
    IF g.st # "pending" THEN g
    ELSE IF failed THEN [st |-> "exception", error |-> error]
    ELSE IF allDone THEN [st |-> "result", error |-> NoError]
    ELSE g

\* ------------------------------------------------------------- state

VARIABLES
    pc,        \* the call: "idle", "awaiting" (_get_rates awaited inline),
               \* "gather" (awaiting asyncio.gather), "done"
    call,      \* the arguments of the call
    query,     \* the query the call built
    rates,     \* the _get_rates coroutine: its state, result and exception
    cnb,       \* the get_current_rates coroutine: state, result, exception
    gather,    \* the future of asyncio.gather
    posts,     \* the POSTs sent
    cnbCalls,  \* the exchange-rate requests sent
    response,  \* the outcome of the POST, once there is one
    log,       \* the records logged
    outcome,   \* what the call returned or raised
    brief      \* whether the endpoint answers from the short list only

vars == <<pc, call, query, rates, cnb, gather, posts, cnbCalls, response, log,
          outcome, brief>>

Units == {"kWh", "MWh", "Wh"}

\* The reference instants: half past midnight, local time, of the two
\* transition days.
RefInstants ==
    {StartOfDayUtc(FromOrdinal(SpringForwardDay)) + 30,
     StartOfDayUtc(FromOrdinal(FallBackDay)) + 30}

\* The start argument: a datetime with a time zone, or a naive one.
Starts ==
    {[aware |-> TRUE, t |-> t] : t \in RefInstants} \cup {[aware |-> FALSE, t |-> 0]}

NoQuery == [op |-> "", start |-> <<>>, end |-> <<>>, in_eur |-> <<>>]

NoCall == [product |-> "", start |-> [aware |-> FALSE, t |-> 0],
           in_eur |-> FALSE, unit |-> ""]

NoOutcome == [kind |-> "none", rates |-> EmptyRates, error |-> NoError]

Returned(r) == [kind |-> "ok", rates |-> r, error |-> NoError]

Failed(e) == [kind |-> "error", rates |-> EmptyRates, error |-> e]

Start ==
    /\ pc = "idle"
    /\ call = NoCall
    /\ query = NoQuery
    /\ rates = [st |-> "none", value |-> EmptyRates, error |-> NoError]
    /\ cnb = [st |-> "none", value |-> <<>>, error |-> NoError]
    /\ gather = [st |-> "unused", error |-> NoError]
    /\ posts = 0
    /\ cnbCalls = 0
    /\ response = <<>>
    /\ log = <<>>
    /\ outcome = NoOutcome

Init == Start /\ brief = FALSE

InitBrief == Start /\ brief = TRUE

\* assert start.tzinfo, 'Timezone must be set'
AssertTimezone(start) ==
    /\ ~start.aware
    /\ pc' = "done"
    /\ outcome' = Failed(Error("AssertionError", "Timezone must be set"))
    /\ UNCHANGED <<query, rates, cnb, gather, posts, cnbCalls, response, log, brief>>

\* get_electricity_rates up to the POST of _download, where it suspends.
get_electricity_rates(start, in_eur, unit) ==
    /\ pc = "idle"
    /\ call' = [product |-> "electricity", start |-> start,
                in_eur |-> in_eur, unit |-> unit]
    /\ \/ AssertTimezone(start)
       \/ /\ start.aware
          /\ LET first_day == LocalDate(start.t)
             IN  query' = get_electricity_query(DatePlusDays(first_day, -1),
                                                DatePlusDays(first_day, 1), in_eur)
          /\ rates' = [rates EXCEPT !.st = "posted"]
          /\ posts' = posts + 1
          /\ pc' = "awaiting"
          /\ UNCHANGED <<cnb, gather, cnbCalls, response, log, outcome, brief>>

\* get_gas_rates up to its first suspension: the POST of the awaited
\* _get_rates (in_eur), or the gather of the two coroutines.
get_gas_rates(start, in_eur, unit) ==
    /\ pc = "idle"
    /\ call' = [product |-> "gas", start |-> start, in_eur |-> in_eur, unit |-> unit]
    /\ \/ AssertTimezone(start)
       \/ /\ start.aware
          /\ LET first_day == LocalDate(start.t)
             IN  query' = get_gas_query(DatePlusDays(first_day, -1),
                                        DatePlusDays(first_day, 1))
          /\ \/ /\ in_eur
                /\ rates' = [rates EXCEPT !.st = "posted"]
                /\ posts' = posts + 1
                /\ pc' = "awaiting"
                /\ UNCHANGED <<cnb, gather>>
             \/ /\ ~in_eur
                /\ rates' = [rates EXCEPT !.st = "scheduled"]
                /\ cnb' = [cnb EXCEPT !.st = "scheduled"]
                /\ gather' = [st |-> "pending", error |-> NoError]
                /\ pc' = "gather"
                /\ UNCHANGED posts
          /\ UNCHANGED <<cnbCalls, response, log, outcome, brief>>

\* The gathered _get_rates task runs up to the POST of _download.
RatesStart ==
    /\ rates.st = "scheduled"
    /\ rates' = [rates EXCEPT !.st = "posted"]
    /\ posts' = posts + 1
    /\ UNCHANGED <<pc, call, query, cnb, gather, cnbCalls, response, log, outcome,
                   brief>>

\* The POST ends: _download returns or raises and _get_rates runs to its end.
\* Awaited inline, its end is the end of the call; gathered, it is reported
\* to the gathering future.
RatesDone(o) ==
    /\ rates.st = "posted"
    /\ response' = <<o>>
    /\ LET r == GetRates(o, call.unit, HasHours(query), log)
       IN  /\ rates' = [st |-> IF r.ok THEN "ok" ELSE "failed",
                        value |-> r.result, error |-> r.error]
           /\ log' = r.log
           /\ \/ /\ pc = "awaiting"
                 /\ pc' = "done"
                 /\ outcome' = IF r.ok THEN Returned(r.result) ELSE Failed(r.error)
                 /\ UNCHANGED gather
              \/ /\ pc # "awaiting"
                 /\ gather' = GatherChildDone(gather, ~r.ok, r.error, cnb.st = "ok")
                 /\ UNCHANGED <<pc, outcome>>
    /\ UNCHANGED <<call, query, cnb, posts, cnbCalls, brief>>

\* The gathered get_current_rates task sends its request.
CnbStart ==
    /\ cnb.st = "scheduled"
    /\ cnb' = [cnb EXCEPT !.st = "requested"]
    /\ cnbCalls' = cnbCalls + 1
    /\ UNCHANGED <<pc, call, query, rates, gather, posts, response, log, outcome,
                   brief>>

\* get_current_rates returns or raises.
CnbDone(o) ==
    /\ cnb.st = "requested"
    /\ cnb' = [st |-> IF o.exc = "" THEN "ok" ELSE "failed",
               value |-> IF o.exc = "" THEN o.table ELSE <<>>,
               error |-> IF o.exc = "" THEN NoError ELSE Error(o.exc, "")]
    /\ gather' = GatherChildDone(gather, o.exc # "", Error(o.exc, ""), rates.st = "ok")
    /\ UNCHANGED <<pc, call, query, rates, posts, cnbCalls, response, log, outcome,
                   brief>>

\* get_gas_rates after the gather: the exception of the gathering future, or
\* the conversion with the EUR entry of the table.
GatherResume ==
    /\ pc = "gather"
    /\ gather.st \in {"result", "exception"}
    /\ pc' = "done"
    /\ outcome' = IF gather.st = "exception" THEN Failed(gather.error)
                  ELSE IF "EUR" \notin DOMAIN cnb.value
                  THEN Failed(Error("KeyError", "EUR"))
                  ELSE Returned(Convert(rates.value, cnb.value["EUR"]))
    /\ UNCHANGED <<call, query, rates, cnb, gather, posts, cnbCalls, response, log,
                   brief>>

\* The endpoint answers the POST, or the POST fails.
RatesResponse ==
    /\ rates.st = "posted"
    /\ \E o \in PostOutcomes(query, brief) : RatesDone(o)

\* The exchange-rate provider answers, or fails.
CnbResponse == \E o \in CnbOutcomes : CnbDone(o)

Next ==
    \/ \E start \in Starts, in_eur \in BOOLEAN, unit \in Units :
           get_electricity_rates(start, in_eur, unit)
    \/ \E start \in Starts, in_eur \in BOOLEAN, unit \in Units :
           get_gas_rates(start, in_eur, unit)
    \/ RatesStart
    \/ RatesResponse
    \/ CnbStart
    \/ CnbResponse
    \/ GatherResume

Spec == Init /\ [][Next]_vars

\* Every POST ends, with a response or with a failure: RatesResponse is
\* enabled exactly while rates.st = "posted" and ends that, so this is weak
\* fairness of RatesResponse, stated on the state.
PostEnds == []<>(rates.st # "posted")

\* The event loop runs every task that is ready, and every request ends:
\* with a response or with a failure.  (The endpoint answers from the short
\* list.)
FairSpec ==
    /\ InitBrief
    /\ [][Next]_vars
    /\ WF_vars(RatesStart)
    /\ PostEnds
    /\ WF_vars(CnbStart)
    /\ WF_vars(CnbResponse)
    /\ WF_vars(GatherResume)

\* ------------------------------------------------------------- properties

\* The POST of the call has ended, with a response text or a failure.
Received == response # <<>>

\* The POST ended with a response text.
Answered == Received /\ response[1].exc = ""

\* The response text parsed as XML.
Parsed == Answered /\ response[1].text.xml

ValidUnit == call.unit \in {"kWh", "MWh"}

\* The UTC instant an item stands for: local midnight of its Date, as a UTC
\* instant, plus Hour - 1 hours (no hours for gas or without an Hour).
ItemInstant(item) ==
    StartOfDayUtc(Fromisoformat(item.date.text))
        + (IF HasHours(query) /\ HasText(item.hour)
           THEN DigitsVal(item.hour.text) - 1 ELSE 0) * 60

\* The item is one the loop gets through: a date, and texts that parse.
WellFormedItem(item) ==
    /\ HasText(item.date) /\ IsIsoDate(item.date.text)
    /\ HasHours(query) /\ HasText(item.hour) => IsIntText(item.hour.text)
    /\ HasText(item.price) => IsDecimalText(item.price.text)

\* C1: a parsed response with a Fault element anywhere, with or without
\* children, makes _get_rates fail with OTEFault and return no series; the
\* message is the faultstring's text if there is a faultstring, else the raw
\* response text.
C1_FaultElementFails ==
    (Parsed /\ response[1].text.fault.present) =>
        /\ rates.st = "failed"
        /\ rates.value = EmptyRates
        /\ rates.error.cls = "OTEFault"
        /\ IF response[1].text.fault.faultstring.present
           THEN rates.error.msg =
                    (IF response[1].text.fault.faultstring.hasText
                     THEN response[1].text.fault.faultstring.text ELSE "None")
           ELSE rates.error.raw = <<response[1].text>>

\* C8: a text that does not parse makes _fromstring fail with the
\* service-unavailable error if it contains "Application is not available"
\* and with the malformed-response error if not, and yields no document; a
\* text that parses never gives the service-unavailable error.
C8_ParseFailureClassified ==
    Answered =>
        /\ ~response[1].text.xml =>
              /\ rates.st = "failed"
              /\ rates.value = EmptyRates
              /\ rates.error.cls = "UpdateFailed"
              /\ rates.error.msg =
                     (IF response[1].text.notAvailable
                      THEN "OTE Portal is currently not available!"
                      ELSE "Failed to parse query response.")
        /\ response[1].text.xml =>
              rates.error.msg # "OTE Portal is currently not available!"

\* An outage page was answered and classified as service-unavailable.
C8_Witness ==
    /\ Answered
    /\ ~response[1].text.xml
    /\ response[1].text.notAvailable
    /\ rates.error.msg = "OTE Portal is currently not available!"

\* C7: _download sends exactly one POST and never retries; every
\* network-level failure of the POST (connection error, timeout, protocol
\* error) makes it fail with an OTEFault-class error; a success returns the
\* text.
C7_DownloadFailureIsOTEFault ==
    /\ rates.st \in {"posted", "ok", "failed"} => posts = 1
    /\ (Received /\ response[1].exc # "") =>
           rates.st = "failed" /\ IsOTEFault(rates.error)

\* C6: a call with a unit other than 'kWh' and 'MWh' never returns a series,
\* whatever the response: without items, or with items without a price.
C6_InvalidUnitNeverReturns ==
    (pc = "done" /\ ~ValidUnit) => outcome.kind # "ok"

\* The response names a failure: no text, a text that is no XML, a Fault
\* element, or an Item without a Date text.
ReportsFailure ==
    /\ Received
    /\ \/ response[1].exc # ""
       \/ ~response[1].text.xml
       \/ response[1].text.fault.present
       \/ \E i \in 1..Len(response[1].text.items) :
              ~HasText(response[1].text.items[i].date)

\* C3: a call never returns a partial series: a failed download, a text
\* that does not parse, a reported Fault or an Item (at any position)
\* without a Date text makes the whole call fail with the originating error,
\* and nothing extracted before the failure is returned.
C3_NoPartialSeries ==
    /\ outcome.kind = "error" => outcome.rates = EmptyRates
    /\ rates.st = "failed" => rates.value = EmptyRates
    /\ (pc = "done" /\ ReportsFailure) =>
           /\ outcome.kind = "error"
           /\ outcome.error \in {rates.error, cnb.error}

\* C3, without the Fault that "if fault:" misses: what holds of the code.
C3_NoPartialSeriesButFault ==
    /\ outcome.kind = "error" => outcome.rates = EmptyRates
    /\ rates.st = "failed" => rates.value = EmptyRates
    /\ (pc = "done" /\ ReportsFailure
            /\ (Parsed => FaultDetected(response[1].text.fault)
                          \/ ~response[1].text.fault.present)) =>
           /\ outcome.kind = "error"
           /\ outcome.error \in {rates.error, cnb.error}

\* C5: get_gas_rates returns a mapping with the keys of the extracted
\* series; with in_eur the extracted values themselves, and the exchange
\* rates are never asked for; without in_eur each value is the extracted,
\* unit-scaled value times the EUR rate of the table, the extracted mapping is
\* left as it was, and 10 at a rate of 24.50 gives 245.00.
C5_GasConversion ==
    /\ (call.product = "electricity" \/ call.in_eur) =>
           cnbCalls = 0 /\ cnb.st = "none"
    /\ (pc = "done" /\ call.product = "gas" /\ outcome.kind = "ok") =>
           /\ rates.st = "ok"
           /\ rates.value = GetRates(response[1], call.unit, FALSE, <<>>).result
           /\ DOMAIN outcome.rates = DOMAIN rates.value
           /\ call.in_eur => outcome.rates = rates.value
           /\ ~call.in_eur =>
                 \A k \in DOMAIN rates.value :
                    /\ outcome.rates[k].coeff =
                           rates.value[k].coeff * cnb.value["EUR"].coeff
                    /\ outcome.rates[k].exp =
                           rates.value[k].exp + cnb.value["EUR"].exp
                    /\ (/\ rates.value[k] = [coeff |-> 10, exp |-> 0]
                        /\ cnb.value["EUR"] = [coeff |-> 2450, exp |-> -2]) =>
                           outcome.rates[k] = [coeff |-> 24500, exp |-> -2]
                    /\ (call.unit = "kWh" /\ Len(response[1].text.items) = 1) =>
                           LET p == ParseDecimal(response[1].text.items[1].price.text)
                           IN  DecimalEq(outcome.rates[k],
                                   [coeff |-> p.coeff * cnb.value["EUR"].coeff,
                                    exp |-> p.exp + cnb.value["EUR"].exp - 3])

\* A gas call without in_eur returned 245.00 for a price of 10 at 24.50.
C5_Witness ==
    /\ pc = "done"
    /\ call.product = "gas"
    /\ ~call.in_eur
    /\ outcome.kind = "ok"
    /\ cnb.st = "ok"
    /\ "EUR" \in DOMAIN cnb.value
    /\ cnb.value["EUR"] = [coeff |-> 2450, exp |-> -2]
    /\ \E k \in DOMAIN rates.value :
           /\ rates.value[k] = [coeff |-> 10, exp |-> 0]
           /\ outcome.rates[k] = [coeff |-> 24500, exp |-> -2]

\* C4 (safety): the gathering call returns a series only when both
\* operations have ended well, and fails with the error of a failed
\* operation when one has failed.
GatherJoined ==
    (pc = "done" /\ gather.st # "unused") =>
        /\ outcome.kind = "ok" => rates.st = "ok" /\ cnb.st = "ok"
        /\ (rates.st = "failed" \/ cnb.st = "failed") =>
               /\ outcome.kind = "error"
               /\ \/ rates.st = "failed" /\ outcome.error = rates.error
                  \/ cnb.st = "failed" /\ outcome.error = cnb.error

\* C4: in get_gas_rates without in_eur the price fetch and the exchange-rate
\* fetch run concurrently and are joined: whenever each of them ends, the
\* call ends too; it returns a converted series only after both have ended
\* well, and if one fails the call fails with the error of a failed one.
C4_GatherJoinsAndEnds ==
    /\ []GatherJoined
    /\ (pc = "gather") ~> (pc = "done")

\* Both operations failed, and the call has ended.
C4_Witness ==
    /\ pc = "done"
    /\ gather.st = "exception"
    /\ rates.st = "failed"
    /\ cnb.st = "failed"
    /\ rates.error # cnb.error

\* The items of the parsed response.
Items == response[1].text.items

\* The keys of the extracted series that hold the price of item i.
KeysOfItem(i) ==
    {key \in DOMAIN rates.value :
        rates.value[key] = ScalePrice(ParseDecimal(Items[i].price.text), call.unit)}

\* The items of the response dated on day k of the window.
ItemsOfDay(k) ==
    {i \in 1..Len(Items) : Items[i].date = Child(Isoformat(WindowDay(query, k)))}

\* The day _get_rates extracted is the transition day of the window with all
\* its nominal slots (24 or 26), the day after not yet published.
NominalDayExtracted ==
    /\ Parsed
    /\ HasHours(query)
    /\ rates.st = "ok"
    /\ Len(Items) > MaxItems
    /\ Items = WindowItems(query, TRUE, FALSE)

\* The instants of day k's entries that lie within local day k.
WithinDay(k) ==
    {key \in UNION {KeysOfItem(i) : i \in ItemsOfDay(k)} :
        /\ StartOfDayUtc(WindowDay(query, k)) <= key
        /\ key < StartOfDayUtc(WindowDay(query, k + 1))}

EntriesIncreaseWithHour(k) ==
    \A i \in ItemsOfDay(k), j \in ItemsOfDay(k) :
        i < j => \A a \in KeysOfItem(i), b \in KeysOfItem(j) : a < b

\* C2 as stated: with all 24 (26) nominal slots of the spring-forward
\* (fall-back) day present, the instants computed for the day's items
\* increase strictly with the hour and are exactly 23 (25) distinct instants.
C2_NominalSlotsFold ==
    NominalDayExtracted =>
        /\ EntriesIncreaseWithHour(1)
        /\ Cardinality(UNION {KeysOfItem(i) : i \in ItemsOfDay(1)})
               = DayLengthHours(WindowDay(query, 1))

\* C2 as it holds: the instants computed for the 24 (26) items increase
\* strictly with the hour and are 24 (26) distinct instants, one per item;
\* exactly the first 23 (25) of them lie within the local day, the last one
\* is the first hour of the day after.
C2_NominalSlotsDistinct ==
    NominalDayExtracted =>
        /\ Cardinality(ItemsOfDay(1)) = NominalSlots(WindowDay(query, 1))
        /\ \A i \in ItemsOfDay(1) : Cardinality(KeysOfItem(i)) = 1
        /\ EntriesIncreaseWithHour(1)
        /\ Cardinality(UNION {KeysOfItem(i) : i \in ItemsOfDay(1)})
               = NominalSlots(WindowDay(query, 1))
        /\ Cardinality(WithinDay(1)) = DayLengthHours(WindowDay(query, 1))
        /\ ToOrdinal(WindowDay(query, 1)) = SpringForwardDay =>
               /\ NominalSlots(WindowDay(query, 1)) = 24
               /\ Cardinality(WithinDay(1)) = 23
        /\ ToOrdinal(WindowDay(query, 1)) = FallBackDay =>
               /\ NominalSlots(WindowDay(query, 1)) = 26
               /\ Cardinality(WithinDay(1)) = 25
        /\ StartOfDayUtc(WindowDay(query, 2)) \in DOMAIN rates.value

\* The 26 nominal slots of the fall-back day were extracted.
C2_Witness ==
    /\ NominalDayExtracted
    /\ ToOrdinal(WindowDay(query, 1)) = FallBackDay
    /\ Cardinality(ItemsOfDay(1)) = 26

\* The whole window was extracted, each day with the slots it really has.
RealWindowExtracted ==
    /\ Parsed
    /\ rates.st = "ok"
    /\ Len(Items) > MaxItems
    /\ Items = WindowItems(query, FALSE, TRUE)

\* C10: every key of the series _get_rates returns is an hour-aligned UTC
\* instant, local midnight of an item's Date in UTC plus Hour - 1 hours (no
\* hours for gas); over the items of the 3-day window whose Hour is within the
\* real length of their day, the map from (Date, Hour) to the key is injective
\* and keeps the order: no item overwrites another, and no hour is skipped or
\* doubled, also across a transition day.
C10_KeysAreItemInstants ==
    (Parsed /\ rates.st = "ok") =>
        /\ \A key \in DOMAIN rates.value :
              /\ key % 60 = 0
              /\ \E i \in 1..Len(Items) :
                     HasText(Items[i].price) /\ key = ItemInstant(Items[i])
        /\ RealWindowExtracted =>
              /\ \A i \in 1..Len(Items) : KeysOfItem(i) = {ItemInstant(Items[i])}
              /\ \A i \in 1..Len(Items), j \in 1..Len(Items) :
                     i < j => ItemInstant(Items[i]) < ItemInstant(Items[j])
              /\ Cardinality(DOMAIN rates.value) = Len(Items)
              /\ HasHours(query) =>
                     \A i \in 1..(Len(Items) - 1) :
                         ItemInstant(Items[i + 1]) = ItemInstant(Items[i]) + 60

\* The three days around the fall-back day were extracted: 24 + 25 + 24 hours.
C10_Witness ==
    /\ RealWindowExtracted
    /\ HasHours(query)
    /\ ToOrdinal(WindowDay(query, 1)) = FallBackDay
    /\ Cardinality(DOMAIN rates.value) = 73

\* The response is one the loop gets through, but for missing fields.
OnlyOptionalFieldsMissing ==
    /\ Parsed
    /\ ~response[1].text.fault.present
    /\ ValidUnit
    /\ \A i \in 1..Len(Items) : WellFormedItem(Items[i])

\* An item without an Hour is keyed at slot 0 of its date, with a warning.
MissingHourIsSlotZero ==
    \A i \in 1..Len(Items) :
        (HasHours(query) /\ ~HasText(Items[i].hour)) =>
            /\ \E n \in 1..Len(log) :
                   log[n] = LogRecord("warning", Fromisoformat(Items[i].date.text), 0)
            /\ HasText(Items[i].price) =>
                   /\ StartOfDayUtc(Fromisoformat(Items[i].date.text))
                          \in DOMAIN rates.value
                   /\ ItemInstant(Items[i])
                          = StartOfDayUtc(Fromisoformat(Items[i].date.text))

\* C9 as stated: missing optional fields never make _get_rates fail; for an
\* item without a Price the series has no entry at the item's (date, hour)
\* and the loop goes on; an item without an Hour is keyed at slot 0 of its
\* date, with a warning.
C9_SkippedItemHasNoEntry ==
    OnlyOptionalFieldsMissing =>
        /\ rates.st = "ok"
        /\ \A i \in 1..Len(Items) :
               ~HasText(Items[i].price) => ItemInstant(Items[i]) \notin DOMAIN rates.value
        /\ MissingHourIsSlotZero

\* C9 as it holds: missing optional fields never make _get_rates fail; an
\* item without a Price adds no entry and the loop goes on, so that the
\* series has exactly the instants of the items with a Price (an entry at the
\* instant of an item without one is the entry of another item); an item
\* without an Hour is keyed at slot 0 of its date, with a warning.
C9_SkippedItemAddsNoEntry ==
    OnlyOptionalFieldsMissing =>
        /\ rates.st = "ok"
        /\ DOMAIN rates.value =
               {ItemInstant(Items[i]) :
                    i \in {n \in 1..Len(Items) : HasText(Items[n].price)}}
        /\ \A i \in 1..Len(Items) :
               ~HasText(Items[i].price) =>
                   \E n \in 1..Len(log) :
                       /\ log[n].level = "info"
                       /\ log[n].date = Fromisoformat(Items[i].date.text)
        /\ MissingHourIsSlotZero

\* An item without a Price was passed over, and a later item, without an
\* Hour, was stored at slot 0 of its date.
C9_Witness ==
    /\ OnlyOptionalFieldsMissing
    /\ HasHours(query)
    /\ rates.st = "ok"
    /\ \E i \in 1..Len(Items), j \in 1..Len(Items) :
           /\ i < j
           /\ ~HasText(Items[i].price)
           /\ HasText(Items[j].price)
           /\ ~HasText(Items[j].hour)
           /\ DOMAIN rates.value = {StartOfDayUtc(Fromisoformat(Items[j].date.text))}

====
